---- MODULE Spec2Model ----
(***************************************************************************)
(* Model of scripts/blender_bridge_addon.py: the "Import latest" operator  *)
(* (STORE3D_BRIDGE_OT_ImportLatest.execute) together with the helpers it   *)
(* calls, the server's job queue it talks to, the temp directory and the   *)
(* Blender scene.  Python strings are sequences of one-character strings,  *)
(* so that strip(), lower(), startswith() and slicing are computed.        *)
(***************************************************************************)
EXTENDS Integers, Sequences, FiniteSets, TLC

(* ------------------------------ bounds --------------------------------- *)
\* how many times the operator is invoked
MaxRuns == 2
\* how many jobs the web site puts on the queue
MaxQueue == 2
\* how many objects one import creates at most
MaxNew == 2

(* --------------------------- string helpers ---------------------------- *)
IsSpace(c) == c = " "

RECURSIVE LStrip(_)
LStrip(s) == IF s # <<>> /\ IsSpace(Head(s)) THEN LStrip(Tail(s)) ELSE s

RECURSIVE RStrip(_)
RStrip(s) ==
    IF s # <<>> /\ IsSpace(s[Len(s)]) THEN RStrip(SubSeq(s, 1, Len(s) - 1)) ELSE s

\* str.strip()
Strip(s) == RStrip(LStrip(s))

RECURSIVE RStripSlash(_)
\* str.rstrip("/")
RStripSlash(s) ==
    IF s # <<>> /\ s[Len(s)] = "/" THEN RStripSlash(SubSeq(s, 1, Len(s) - 1)) ELSE s

LowerChar(c) ==
    CASE c = "B" -> "b"
      [] c = "F" -> "f"
      [] c = "G" -> "g"
      [] c = "J" -> "j"
      [] c = "L" -> "l"
      [] c = "O" -> "o"
      [] c = "S" -> "s"
      [] c = "T" -> "t"
      [] c = "X" -> "x"
      [] OTHER -> c

\* str.lower()
Lower(s) == [i \in 1..Len(s) |-> LowerChar(s[i])]

\* str.startswith(p)
StartsWith(s, p) == Len(s) >= Len(p) /\ SubSeq(s, 1, Len(p)) = p

\* the positions of character c in s
Positions(s, c) == {i \in 1..Len(s) : s[i] = c}

SetMax(S) == CHOOSE x \in S : \A y \in S : y <= x
SetMin(S) == CHOOSE x \in S : \A y \in S : x <= y

(* ------------------------------ the data ------------------------------- *)
\* Python string literals, spelled out
HttpScheme == <<"h","t","t","p",":","/","/">>
HttpsScheme == <<"h","t","t","p","s",":","/","/">>

\* The job descriptors the web site can put on the queue (entries of the
\* "jobs" array of GET /api/dcc/blender/jobs?status=queued).
JobTable ==
    << [jobId |-> <<"J","1">>, format |-> <<"g","l","b">>,
        downloadUrl |-> <<"h","t","t","p",":","/","/","x","/","y",".","b","i","n">>],
       [jobId |-> <<"J","2">>, format |-> <<>>,
        downloadUrl |-> <<"h","t","t","p",":","/","/","x","/","m",".","O","B","J"," ">>],
       [jobId |-> <<"J","3">>, format |-> <<"S","T","L">>,
        downloadUrl |-> <<" ">>],
       [jobId |-> <<" ">>, format |-> <<"o","b","j">>,
        downloadUrl |-> <<"h","t","t","p",":","/","/","x","/","z">>] >>

JobIx == 1..Len(JobTable)

\* The addon preferences a run can start with (STORE3D_BRIDGE_Preferences);
\* prefs = FALSE is _get_prefs returning None.
GoodUrl == <<"h","t","t","p",":","/","/","s","/">>
Token == <<"t","o","k">>
CollName == <<"S","t","o","r","e","3","D"," ","I","m","p","o","r","t","s">>

Configs ==
    { [prefs |-> TRUE,  server_url |-> GoodUrl, api_token |-> Token, import_collection |-> CollName],
      [prefs |-> TRUE,  server_url |-> GoodUrl, api_token |-> Token, import_collection |-> <<" ">>],
      [prefs |-> TRUE,  server_url |-> <<" ">>, api_token |-> Token, import_collection |-> CollName],
      [prefs |-> TRUE,  server_url |-> <<"f","t","p",":","/","/","s">>, api_token |-> Token,
       import_collection |-> CollName],
      [prefs |-> TRUE,  server_url |-> GoodUrl, api_token |-> <<" ">>, import_collection |-> CollName],
      [prefs |-> FALSE, server_url |-> GoodUrl, api_token |-> Token, import_collection |-> CollName] }

\* Error messages (str(exc)), as text tag and length in characters.
NoError == [text |-> "", len |-> 0]
Msg(t, n) == [text |-> t, len |-> n]

(* --------------------------- pure functions ---------------------------- *)
\* _resolve_base_url: the error it raises, NoError when the URL is accepted
ResolveBaseUrlError(c) ==
    LET base_url == RStripSlash(Strip(c.server_url)) IN
    IF ~c.prefs THEN Msg("Bridge preferences are not available.", 37)
    ELSE IF base_url = <<>> THEN Msg("Set Server URL in addon settings.", 33)
    ELSE IF ~(StartsWith(base_url, HttpScheme) \/ StartsWith(base_url, HttpsScheme))
         THEN Msg("Server URL must start with http:// or https://", 46)
    ELSE NoError

\* a variant of the checks of _http_json that does not look at the token
ConfigErrorSkipsToken(c, use_auth) == ResolveBaseUrlError(c)

\* _http_json, lines 60-64: the error raised before any request is built
HttpJsonConfigError(c, use_auth) ==
    IF ResolveBaseUrlError(c) # NoError THEN ResolveBaseUrlError(c)
    ELSE IF use_auth /\ Strip(c.api_token) = <<>>
         THEN Msg("Set API token in addon settings.", 32)
    ELSE NoError

KnownFormats == { <<"g","l","b">>, <<"g","l","t","f">>, <<"o","b","j">>, <<"s","t","l">> }
KnownSuffixes == { <<".">> \o f : f \in KnownFormats }

\* urllib.parse.urlparse(url).path: drop the fragment and the query, then the
\* scheme and, after "//", the network location
UrlPath(url) ==
    LET cuts == Positions(url, "#") \cup Positions(url, "?")
        body == IF cuts = {} THEN url ELSE SubSeq(url, 1, SetMin(cuts) - 1)
        colons == Positions(body, ":")
        slashes0 == Positions(body, "/")
        hasScheme == colons # {} /\ SetMin(colons) > 1
                     /\ (slashes0 = {} \/ SetMin(colons) < SetMin(slashes0))
        rest == IF hasScheme THEN SubSeq(body, SetMin(colons) + 1, Len(body)) ELSE body
        afterNet == SubSeq(rest, 3, Len(rest))
        slashes == Positions(afterNet, "/")
    IN  IF StartsWith(rest, <<"/","/">>)
        THEN IF slashes = {} THEN <<>> ELSE SubSeq(afterNet, SetMin(slashes), Len(afterNet))
        ELSE rest

\* os.path.splitext(path)[1]: from the last dot of the last component, unless
\* that component has only dots before it
SplitExt(path) ==
    LET seps == Positions(path, "/")
        sep == IF seps = {} THEN 0 ELSE SetMax(seps)
        dots == Positions(path, ".")
        dot == IF dots = {} THEN 0 ELSE SetMax(dots)
    IN  IF dot > sep /\ (\E i \in (sep + 1)..(dot - 1) : path[i] # ".")
        THEN SubSeq(path, dot, Len(path))
        ELSE <<>>

\* a variant of _infer_suffix that looks at the URL before the format
UrlBeforeFormat(j) ==
    LET fmt == Lower(Strip(j.format))
        ext == Lower(SplitExt(UrlPath(Strip(j.downloadUrl))))
    IN  IF ext \in KnownSuffixes THEN ext
        ELSE IF fmt \in KnownFormats THEN <<".">> \o fmt
        ELSE <<".","g","l","b">>

\* _infer_suffix(job)
InferSuffix(j) ==
    LET fmt == Lower(Strip(j.format))
        ext == Lower(SplitExt(UrlPath(Strip(j.downloadUrl))))
    IN  IF fmt \in KnownFormats THEN <<".">> \o fmt
        ELSE IF ext \in KnownSuffixes THEN ext
        ELSE <<".","g","l","b">>

\* tempfile.mkstemp(prefix="store3d_bridge_", suffix=suffix): a fresh name
\* in the temp directory; n stands for the random part
Digit(n) == <<"0","1","2","3","4","5","6","7","8","9">>[n + 1]
MkstempPath(n, suffix) == <<"/","t","/","b","_", Digit(n)>> \o suffix

\* message[:220] of line 353
MsgLimit == 220
Truncate(m) == [m EXCEPT !.len = IF m.len < MsgLimit THEN m.len ELSE MsgLimit]

(* ------------------------------- state --------------------------------- *)
VARIABLES
    cfg,              \* the addon preferences
    run,              \* number of invocations of execute so far
    pc,               \* where the current invocation stands
    queue,            \* server: the jobs ever enqueued, in the order it lists them
    status,           \* server: JobStatus of every job
    job,              \* execute: job (line 323)
    job_id,           \* execute: job_id (lines 324 and 350)
    download_url,     \* execute: download_url
    temp_path,        \* execute: temp_path
    imported_objects, \* execute: imported_objects
    message,          \* execute: message (line 345)
    files,            \* the temp directory: the payload files that exist
    objects,          \* bpy.data.objects, by name
    coll,             \* the import collection: whether it exists, what it links
    events,           \* history: what this invocation did, in order
    acklog,           \* history: every acknowledgement request sent, over all runs
    outcome,          \* what this invocation reported to the caller
    first_error,      \* history: the exception that entered the except branch
    pair_code,        \* the preferences' pair_code
    wm,               \* WindowManager.store3d_bridge_jobs and store3d_bridge_last_count
    requests,         \* history: the requests the last panel operator sent
    response,         \* history: the response the last panel operator received
    op_result,        \* what the last panel operator reported and returned
    arg,              \* function-level specifications: the argument drawn
    ret               \* function-level specifications: the value returned

vars == << cfg, run, pc, queue, status, job, job_id, download_url, temp_path,
           imported_objects, message, files, objects, coll, events, acklog,
           outcome, first_error, pair_code, wm, requests, response, op_result,
           arg, ret >>

\* what the import-latest operator never touches
panel == << pair_code, wm, requests, response, op_result, arg, ret >>
\* what the other panel operators and the function-level specifications never touch
runstate == << run, pc, queue, status, job, job_id, download_url, temp_path, message,
               files, events, acklog, outcome, first_error >>

server == << queue, status >>
locals == << job, job_id, download_url, temp_path, imported_objects, message >>
scene  == << objects, coll >>

NoJob == [jobId |-> <<>>, format |-> <<>>, downloadUrl |-> <<>>]
NoOutcome == [kind |-> "none", msg |-> NoError, count |-> 0, ret |-> ""]

\* a JSON value of a response: its type, and its value as a string, a number
\* (for an object, the number of its keys) or a list of job descriptors
Json(t, str, num, list) == [t |-> t, s |-> str, n |-> num, l |-> list]
Absent == Json("absent", <<>>, 0, <<>>)
NoResponse == [got |-> FALSE, jobs |-> Absent, token |-> Absent]
\* the JSON object of a response with the given "jobs" and "token" fields
Payload(j, t) == [got |-> TRUE, jobs |-> j, token |-> t]
NoReport == [op |-> "", level |-> "", msg |-> NoError, ret |-> "", count |-> 0]

Ev(e, i, a) == [ev |-> e, id |-> i, arg |-> a]

Init ==
    /\ cfg \in Configs
    /\ run = 0
    /\ pc = "idle"
    /\ queue = <<>>
    /\ status = [i \in JobIx |-> "none"]
    /\ job = NoJob
    /\ job_id = <<>>
    /\ download_url = <<>>
    /\ temp_path = <<>>
    /\ imported_objects = {}
    /\ message = NoError
    /\ files = {}
    /\ objects = {}
    /\ coll = [exists |-> FALSE, objects |-> {}]
    /\ events = <<>>
    /\ acklog = <<>>
    /\ outcome = NoOutcome
    /\ first_error = NoError
    /\ pair_code = <<>>
    /\ wm = [jobs |-> <<>>, last_count |-> 0]
    /\ requests = <<>>
    /\ response = NoResponse
    /\ op_result = NoReport
    /\ arg = <<>>
    /\ ret = <<>>

(* ------------------------------ the server ----------------------------- *)
\* The web site queues a job for Blender.
Enqueue(i) ==
    /\ Len(queue) < MaxQueue
    /\ status[i] = "none"
    /\ queue' = Append(queue, i)
    /\ status' = [status EXCEPT ![i] = "queued"]
    /\ UNCHANGED << cfg, run, pc, locals, files, scene, events, acklog, outcome, first_error >>
    /\ UNCHANGED panel

RECURSIVE QueuedOf(_, _)
QueuedOf(q, st) ==
    IF q = <<>> THEN <<>>
    ELSE IF st[Head(q)] = "queued" THEN <<JobTable[Head(q)]>> \o QueuedOf(Tail(q), st)
    ELSE QueuedOf(Tail(q), st)

\* a variant of the listing that does not filter by status
ListsEveryJob == [i \in 1..Len(queue) |-> JobTable[queue[i]]]

\* GET /api/dcc/blender/jobs?status=queued: the "jobs" array
Listing == QueuedOf(queue, status)

\* POST /api/dcc/blender/jobs/{jobId}/ack: the jobs the path addresses
Addressed(id) == {i \in JobIx : JobTable[i].jobId = id /\ status[i] # "none"}

\* the server records the acknowledged status
ServerAck(id, st) == [i \in JobIx |-> IF i \in Addressed(id) THEN st ELSE status[i]]

\* How a request can fail in _http_json (lines 89-96), as str(exc)
NetworkError == Msg("Network error: timed out", 24)
HttpError == Msg("HTTP 500: <response body>", 300)
NonJson == Msg("Server returned non-JSON response.", 34)

(* ------------------- STORE3D_BRIDGE_OT_ImportLatest -------------------- *)
\* what the transport can do with one _http_json request
ListResults == {"ok", "nolist", "network", "http", "nonjson"}
AckResults == {"ok", "lost", "rejected"}

\* the exception _http_json raises for a failed transport result
HttpRaises(res) ==
    CASE res = "network" -> NetworkError
      [] res = "lost" -> NetworkError
      [] res = "http" -> HttpError
      [] res = "rejected" -> HttpError
      [] res = "nonjson" -> NonJson
      [] OTHER -> NoError

\* a variant of _ack_job that passes over every failure of the request
AckRaisesNothing(res) == NoError

\* _ack_job(context, job_id, status, message): the exception it lets through
AckRaises(res) == HttpRaises(res)

\* lines 318-319 and 348-349: the job list taken from the response
JobsOf(res) == IF res = "ok" THEN Listing ELSE <<>>

\* line 323
FirstJob(jobs) == jobs[1]

\* line 327
InvalidJobMsg == Msg("Invalid job payload: jobId/downloadUrl is missing.", 50)

\* line 326
IsInvalidJob(id, url) == id = <<>> \/ url = <<>>

\* line 350: the job the except branch reports the error for
RecoveryJobId(jobs, cur_job_id) == Strip(jobs[1].jobId)

\* a variant of the inner handlers that rebinds message to the later failure
SwallowRebinds(orig, secondary) == IF secondary # NoError THEN secondary ELSE orig

\* lines 354-357: "except Exception: pass" keeps message as it was
Swallow(orig, secondary) == orig

\* a variant of the count that takes every object of the scene
CountsWholeScene(imported, all_objects) == Cardinality(all_objects)

\* line 341: len(imported_objects)
ReportedCount(imported, all_objects) == Cardinality(imported)

\* lines 320-321
NoJobsOutcome == [kind |-> "nojobs", msg |-> Msg("No queued jobs.", 15), count |-> 0,
                  ret |-> "CANCELLED"]

\* a variant of the failure report that returns FINISHED
FailureAsSuccess(m) == [kind |-> "success", msg |-> m, count |-> 0, ret |-> "FINISHED"]

\* line 358-359
FailureOutcome(m) == [kind |-> "failure", msg |-> m, count |-> 0, ret |-> "CANCELLED"]

\* the exception handler is entered with exc (line 344-345)
Raise(exc) ==
    /\ pc' = "except"
    /\ message' = exc
    /\ first_error' = exc

\* a variant of the empty-list exit that raises instead of returning
NoJobsRaises ==
    /\ Raise(Msg("No queued jobs.", 15))
    /\ events' = Append(events, Ev("list", <<>>, "ok"))
    /\ UNCHANGED << job, job_id, download_url, outcome >>

\* lines 319-321: nothing is queued
NoJobsExit ==
    /\ outcome' = NoJobsOutcome
    /\ events' = events \o << Ev("list", <<>>, "ok"), Ev("report", <<>>, "INFO") >>
    /\ pc' = "finally"
    /\ UNCHANGED << job, job_id, download_url, message, first_error >>

\* one acknowledgement request on the wire: the log entry and the server's side
SendAck(id, st, m, res) ==
    /\ acklog' = Append(acklog, [run |-> run, id |-> id, status |-> st, msg |-> m,
                                 res |-> res])
    /\ status' = IF res \in {"ok", "lost"} THEN ServerAck(id, st) ELSE status
    /\ UNCHANGED queue

\* lines 309-315
Invoke ==
    /\ pc = "idle"
    /\ run < MaxRuns
    /\ run' = run + 1
    /\ job' = NoJob
    /\ job_id' = <<>>
    /\ download_url' = <<>>
    /\ temp_path' = <<>>
    /\ imported_objects' = {}
    /\ message' = NoError
    /\ first_error' = NoError
    /\ IF ~cfg.prefs
       THEN /\ outcome' = FailureOutcome(Msg("Addon preferences are not available.", 36))
            /\ events' = << Ev("report", <<>>, "ERROR") >>
            /\ pc' = "idle"
       ELSE /\ outcome' = NoOutcome
            /\ events' = <<>>
            /\ pc' = "list"
    /\ UNCHANGED << cfg, server, files, scene, acklog >>
    /\ UNCHANGED panel

\* lines 317-327
List ==
    /\ pc = "list"
    /\ IF HttpJsonConfigError(cfg, TRUE) # NoError
       THEN /\ Raise(HttpJsonConfigError(cfg, TRUE))
            /\ UNCHANGED << job, job_id, download_url, events, outcome >>
       ELSE \E res \in ListResults :
            LET jobs == JobsOf(res) IN
            IF HttpRaises(res) # NoError
            THEN /\ Raise(HttpRaises(res))
                 /\ events' = Append(events, Ev("list", <<>>, "failed"))
                 /\ UNCHANGED << job, job_id, download_url, outcome >>
            ELSE IF jobs = <<>>
            THEN NoJobsExit
            ELSE /\ job' = FirstJob(jobs)
                 /\ job_id' = Strip(job'.jobId)
                 /\ download_url' = Strip(job'.downloadUrl)
                 /\ events' = Append(events, Ev("list", <<>>, "ok"))
                 /\ UNCHANGED outcome
                 /\ IF IsInvalidJob(job_id', download_url')
                    THEN Raise(InvalidJobMsg)
                    ELSE /\ pc' = "ack_picked"
                         /\ UNCHANGED << message, first_error >>
    /\ UNCHANGED << cfg, run, server, temp_path, imported_objects, files, scene, acklog >>
    /\ UNCHANGED panel

\* line 329
AckPicked ==
    /\ pc = "ack_picked"
    /\ \E res \in AckResults :
        /\ SendAck(job_id, "picked", Msg("Picked by Blender addon.", 24), res)
        /\ events' = Append(events, Ev("ack", job_id, "picked"))
        /\ IF AckRaises(res) # NoError
           THEN Raise(AckRaises(res))
           ELSE /\ pc' = "download"
                /\ UNCHANGED << message, first_error >>
    /\ UNCHANGED << cfg, run, job, job_id, download_url, temp_path, imported_objects,
                    files, scene, outcome >>
    /\ UNCHANGED panel

\* line 331, suffix = _infer_suffix(job), tabulated over the job descriptors
JobSuffix == [j \in {JobTable[i] : i \in JobIx} |-> InferSuffix(j)]

\* what _download_file can do: the request fails, the write to the created
\* temp file fails, or the path of the written file is returned
DownloadResults == {"ok", "urlopen", "write"}

\* lines 331-332 (with _download_file, lines 99-119)
Download ==
    /\ pc = "download"
    /\ \E res \in DownloadResults :
        LET suffix == JobSuffix[job]
            path == MkstempPath(run, suffix)
        IN  IF res = "urlopen"
            THEN   /\ Raise(NetworkError)
                   /\ events' = Append(events, Ev("download", download_url, "failed"))
                   /\ UNCHANGED << files, temp_path >>
            ELSE IF res = "write"
            THEN   /\ files' = files \cup {path}
                   /\ Raise(Msg("[Errno 28] No space left on device", 34))
                   /\ events' = Append(events, Ev("download", download_url, "failed"))
                   /\ UNCHANGED temp_path
            ELSE   /\ files' = files \cup {path}
                   /\ temp_path' = path
                   /\ events' = events \o << Ev("download", download_url, "ok"),
                                            Ev("tempfile", path, "created") >>
                   /\ pc' = "import"
                   /\ UNCHANGED << message, first_error >>
    /\ UNCHANGED << cfg, run, server, job, job_id, download_url, imported_objects,
                    scene, acklog, outcome >>
    /\ UNCHANGED panel

\* lines 193-196: the objects collection.objects.link is called for
ToLink(c, objs) == {o \in objs : o \notin c.objects}

\* a variant of _move_to_collection that expects the collection to exist
NeverCreates(c, objs, collection_name) ==
    IF collection_name = <<>> \/ objs = {} \/ ~c.exists THEN c
    ELSE [exists |-> TRUE, objects |-> c.objects \cup ToLink(c, objs)]

\* _move_to_collection(scene, objects, collection_name)
MoveToCollection(c, objs, collection_name) ==
    IF collection_name = <<>> \/ objs = {} THEN c
    ELSE [exists |-> TRUE, objects |-> c.objects \cup ToLink(c, objs)]

\* a variant of line 180 that returns every object of the scene
ImportedAll(before_names, after) == after

\* line 180: the objects whose name was not there before the import
ImportedObjects(before_names, after) == {o \in after : o \notin before_names}

\* the names the importer gives the k objects it creates
NewNames(k) == {<<run, i>> : i \in 1..k}

\* lines 333-336 (with _import_model_file, lines 161-181)
Import ==
    /\ pc = "import"
    /\ LET ext == Lower(SplitExt(temp_path))
           before_names == objects
       IN  IF ext \notin KnownSuffixes
           THEN /\ Raise(Msg("Unsupported file extension", 32))
                /\ events' = Append(events, Ev("import", temp_path, "failed"))
                /\ UNCHANGED << imported_objects, scene >>
           ELSE \/ /\ Raise(Msg("Error: import operator failed", 29))
                   /\ events' = Append(events, Ev("import", temp_path, "failed"))
                   /\ UNCHANGED << imported_objects, scene >>
                \/ \E k \in 0..MaxNew :
                   /\ objects' = objects \cup NewNames(k)
                   /\ imported_objects' = ImportedObjects(before_names, objects')
                   /\ coll' = MoveToCollection(coll, imported_objects',
                                               Strip(cfg.import_collection))
                   /\ events' = events \o << Ev("import", temp_path, "ok"),
                                            Ev("link", Strip(cfg.import_collection), "ok") >>
                   /\ pc' = "ack_imported"
                   /\ UNCHANGED << message, first_error >>
    /\ UNCHANGED << cfg, run, server, job, job_id, download_url, temp_path, files,
                    acklog, outcome >>
    /\ UNCHANGED panel

\* line 338
AckImported ==
    /\ pc = "ack_imported"
    /\ \E res \in AckResults :
        /\ SendAck(job_id, "imported", Msg("Imported to Blender.", 20), res)
        /\ events' = Append(events, Ev("ack", job_id, "imported"))
        /\ IF AckRaises(res) # NoError
           THEN Raise(AckRaises(res))
           ELSE /\ pc' = "report_ok"
                /\ UNCHANGED << message, first_error >>
    /\ UNCHANGED << cfg, run, job, job_id, download_url, temp_path, imported_objects,
                    files, scene, outcome >>
    /\ UNCHANGED panel

\* lines 339-343
ReportSuccess ==
    /\ pc = "report_ok"
    /\ outcome' = [kind |-> "success", msg |-> Msg("Imported job", 40),
                   count |-> ReportedCount(imported_objects, objects), ret |-> "FINISHED"]
    /\ events' = Append(events, Ev("report", job_id, "INFO"))
    /\ pc' = "finally"
    /\ UNCHANGED << cfg, run, server, locals, files, scene, acklog, first_error >>
    /\ UNCHANGED panel

\* lines 346-351 and 356-357: the re-poll of the except branch
Repoll ==
    /\ pc = "except"
    /\ IF HttpJsonConfigError(cfg, TRUE) # NoError
       THEN /\ message' = Swallow(message, HttpJsonConfigError(cfg, TRUE))
            /\ pc' = "report_fail"
            /\ UNCHANGED << job_id, events >>
       ELSE \E res \in ListResults :
            LET jobs == JobsOf(res) IN
            IF HttpRaises(res) # NoError
            THEN /\ message' = Swallow(message, HttpRaises(res))
                 /\ events' = Append(events, Ev("repoll", <<>>, "failed"))
                 /\ pc' = "report_fail"
                 /\ UNCHANGED job_id
            ELSE /\ events' = Append(events, Ev("repoll", <<>>, "ok"))
                 /\ UNCHANGED message
                 /\ IF jobs = <<>>
                    THEN /\ pc' = "report_fail"
                         /\ UNCHANGED job_id
                    ELSE /\ job_id' = RecoveryJobId(jobs, job_id)
                         /\ pc' = IF job_id' # <<>> THEN "ack_error" ELSE "report_fail"
    /\ UNCHANGED << cfg, run, server, job, download_url, temp_path, imported_objects,
                    files, scene, acklog, outcome, first_error >>
    /\ UNCHANGED panel

\* lines 352-355
AckError ==
    /\ pc = "ack_error"
    /\ \E res \in AckResults :
        /\ SendAck(job_id, "error", Truncate(message), res)
        /\ events' = Append(events, Ev("ack", job_id, "error"))
        /\ message' = Swallow(message, AckRaises(res))
        /\ pc' = "report_fail"
    /\ UNCHANGED << cfg, run, job, job_id, download_url, temp_path, imported_objects,
                    files, scene, outcome, first_error >>
    /\ UNCHANGED panel

\* a variant of the except branch that returns without a report
ReturnsSilently ==
    /\ pc = "report_fail"
    /\ pc' = "finally"
    /\ UNCHANGED << cfg, run, server, locals, files, scene, events, acklog, outcome,
                    first_error >>
    /\ UNCHANGED panel

\* lines 358-359
ReportFailure ==
    /\ pc = "report_fail"
    /\ outcome' = FailureOutcome(message)
    /\ events' = Append(events, Ev("report", <<>>, "ERROR"))
    /\ pc' = "finally"
    /\ UNCHANGED << cfg, run, server, locals, files, scene, acklog, first_error >>
    /\ UNCHANGED panel

\* lines 360-365; os.remove either deletes the file or raises, which is passed over
Finally ==
    /\ pc = "finally"
    /\ IF temp_path # <<>> /\ temp_path \in files
       THEN \/ /\ files' = files \ {temp_path}
               /\ events' = Append(events, Ev("remove", temp_path, "ok"))
            \/ /\ events' = Append(events, Ev("remove", temp_path, "failed"))
               /\ UNCHANGED files
       ELSE UNCHANGED << files, events >>
    /\ pc' = "idle"
    /\ UNCHANGED << cfg, run, server, locals, scene, acklog, outcome, first_error >>
    /\ UNCHANGED panel

Next ==
    \/ \E i \in JobIx : Enqueue(i)
    \/ Invoke
    \/ List
    \/ AckPicked
    \/ Download
    \/ Import
    \/ AckImported
    \/ ReportSuccess
    \/ Repoll
    \/ AckError
    \/ ReportFailure
    \/ Finally

Spec == Init /\ [][Next]_vars

\* the steps of a started invocation: execute runs to its return once every
\* request and the import return or fail
RunStep ==
    \/ List
    \/ AckPicked
    \/ Download
    \/ Import
    \/ AckImported
    \/ ReportSuccess
    \/ Repoll
    \/ AckError
    \/ ReportFailure
    \/ Finally

SpecLive == Spec /\ WF_vars(RunStep)

(* ---------------------- the other panel operators ---------------------- *)
\* The values the "jobs" field of a listing response can have.
JobsFields ==
    { Absent,
      Json("null", <<>>, 0, <<>>),
      Json("number", <<>>, 5, <<>>),
      Json("string", <<"a","b">>, 0, <<>>),
      Json("object", <<>>, 1, <<>>),
      Json("list", <<>>, 0, <<>>),
      Json("list", <<>>, 0, << JobTable[1] >>),
      Json("list", <<>>, 0, << JobTable[3], JobTable[1] >>) }

\* The values the "token" field of a pairing response can have.
TokenFields ==
    { Absent,
      Json("null", <<>>, 0, <<>>),
      Json("string", <<>>, 0, <<>>),
      Json("string", <<" ">>, 0, <<>>),
      Json("string", <<"k","2">>, 0, <<>>),
      Json("string", <<" ","k","3"," ">>, 0, <<>>) }

\* The pair codes the user can have typed into the preferences.
PairCodes == { <<>>, <<" "," ">>, <<"a","1">>, <<" ","a","1","b"," ">>, <<"A","1">> }

UpperChar(c) ==
    CASE c = "a" -> "A"
      [] c = "b" -> "B"
      [] c = "k" -> "K"
      [] OTHER -> c

\* str.upper()
Upper(s) == [i \in 1..Len(s) |-> UpperChar(s[i])]

EmptyList == Json("list", <<>>, 0, <<>>)

\* data.get("jobs", [])
GetJobs(payload) == IF payload.jobs.t = "absent" THEN EmptyList ELSE payload.jobs

\* isinstance(jobs, list)
IsList(v) == v.t = "list"

\* whether len(v) is defined; it raises TypeError for None and for a number
HasLen(v) == v.t \in {"list", "string", "object"}

\* len(v)
PyLen(v) ==
    CASE v.t = "list" -> Len(v.l)
      [] v.t = "string" -> Len(v.s)
      [] v.t = "object" -> v.n
      [] OTHER -> 0

\* str(payload.get("token", ""))
TokenStr(payload) ==
    CASE payload.token.t = "absent" -> <<>>
      [] payload.token.t = "string" -> payload.token.s
      [] payload.token.t = "null" -> <<"N","o","n","e">>
      [] payload.token.t = "number" -> << Digit(payload.token.n) >>
      [] OTHER -> <<"{","}">>

\* what the transport can do with the one request of a panel operator
OpResults == {"ok", "network", "http", "nonjson"}

Request(m, p, auth, b) == [method |-> m, path |-> p, auth |-> auth, body |-> b]
ListRequest == Request("GET", "/api/dcc/blender/jobs?status=queued", TRUE, <<>>)

Report(o, lvl, m, r, n) == [op |-> o, level |-> lvl, msg |-> m, ret |-> r, count |-> n]
ErrorReport(o, m) == Report(o, "ERROR", m, "CANCELLED", 0)

\* STORE3D_BRIDGE_OT_TestConnection.execute, lines 254-259: the report for
\* the jobs value of the response
TestCount(jobs) ==
    IF HasLen(jobs)
    THEN Report("test", "INFO", Msg("Connection OK. Queued jobs", 28), "FINISHED",
                PyLen(jobs))
    ELSE ErrorReport("test", Msg("object of type has no len()", 36))

\* STORE3D_BRIDGE_OT_TestConnection.execute
TestConnection ==
    /\ pc = "idle"
    /\ IF HttpJsonConfigError(cfg, TRUE) # NoError
       THEN /\ requests' = <<>>
            /\ response' = NoResponse
            /\ op_result' = ErrorReport("test", HttpJsonConfigError(cfg, TRUE))
       ELSE /\ requests' = << ListRequest >>
            /\ \E res \in OpResults :
                IF HttpRaises(res) # NoError
                THEN /\ response' = NoResponse
                     /\ op_result' = ErrorReport("test", HttpRaises(res))
                ELSE \E f \in JobsFields :
                     /\ response' = Payload(f, Absent)
                     /\ op_result' = TestCount(GetJobs(response'))
    /\ UNCHANGED << cfg, pair_code, wm, arg, ret, runstate, imported_objects, scene >>

\* STORE3D_BRIDGE_OT_FetchJobs.execute, lines 272-273
FetchedList(jobs) == IF ~IsList(jobs) THEN EmptyList ELSE jobs

\* STORE3D_BRIDGE_OT_FetchJobs.execute
FetchJobs ==
    /\ pc = "idle"
    /\ IF HttpJsonConfigError(cfg, TRUE) # NoError
       THEN /\ requests' = <<>>
            /\ response' = NoResponse
            /\ op_result' = ErrorReport("fetch", HttpJsonConfigError(cfg, TRUE))
            /\ UNCHANGED wm
       ELSE /\ requests' = << ListRequest >>
            /\ \E res \in OpResults :
                IF HttpRaises(res) # NoError
                THEN /\ response' = NoResponse
                     /\ op_result' = ErrorReport("fetch", HttpRaises(res))
                     /\ UNCHANGED wm
                ELSE \E f \in JobsFields :
                     LET jobs == FetchedList(GetJobs(Payload(f, Absent))) IN
                     /\ response' = Payload(f, Absent)
                     /\ wm' = [jobs |-> jobs.l, last_count |-> PyLen(jobs)]
                     /\ op_result' = Report("fetch", "INFO", Msg("Fetched queued jobs.", 22),
                                            "FINISHED", PyLen(jobs))
    /\ UNCHANGED << cfg, pair_code, arg, ret, runstate, imported_objects, scene >>

\* _pair_code, line 145: str(code or "").strip().upper()
NormalizeCode(code) == Upper(Strip(code))

\* _pair_code, line 155: str(payload.get("token", "")).strip()
TokenOf(payload) == Strip(TokenStr(payload))

PairRequest(code) == Request("PUT", "/api/dcc/blender/pair", FALSE, code)

\* STORE3D_BRIDGE_OT_PairCode.execute (with _pair_code, lines 144-158)
PairCode ==
    /\ pc = "idle"
    /\ LET normalized_code == NormalizeCode(pair_code) IN
       IF ~cfg.prefs
       THEN /\ op_result' = ErrorReport("pair", Msg("Addon preferences are not available.", 36))
            /\ requests' = <<>>
            /\ response' = NoResponse
            /\ UNCHANGED << cfg, pair_code, ret >>
       ELSE IF normalized_code = <<>>
       THEN /\ op_result' = ErrorReport("pair", Msg("Set Pair code in addon settings.", 32))
            /\ requests' = <<>>
            /\ response' = NoResponse
            /\ UNCHANGED << cfg, pair_code, ret >>
       ELSE IF HttpJsonConfigError(cfg, FALSE) # NoError
       THEN /\ op_result' = ErrorReport("pair", HttpJsonConfigError(cfg, FALSE))
            /\ requests' = <<>>
            /\ response' = NoResponse
            /\ UNCHANGED << cfg, pair_code, ret >>
       ELSE /\ requests' = << PairRequest(normalized_code) >>
            /\ \E res \in OpResults :
                IF HttpRaises(res) # NoError
                THEN /\ op_result' = ErrorReport("pair", HttpRaises(res))
                     /\ response' = NoResponse
                     /\ UNCHANGED << cfg, pair_code, ret >>
                ELSE \E f \in TokenFields :
                     LET token == TokenOf(Payload(Absent, f)) IN
                     /\ response' = Payload(Absent, f)
                     /\ IF token = <<>>
                        THEN /\ op_result' = ErrorReport("pair",
                                    Msg("Pairing response does not contain token.", 40))
                             /\ UNCHANGED << cfg, pair_code, ret >>
                        ELSE /\ ret' = token
                             /\ cfg' = [cfg EXCEPT !.api_token = token]
                             /\ pair_code' = <<>>
                             /\ op_result' = Report("pair", "INFO",
                                    Msg("Pairing successful. API token saved.", 36),
                                    "FINISHED", 0)
    /\ arg' = pair_code
    /\ UNCHANGED << wm, runstate, imported_objects, scene >>

\* the panel before any operator ran: any preferences, any pair code typed
InitOps ==
    /\ cfg \in Configs
    /\ pair_code \in PairCodes
    /\ run = 0
    /\ pc = "idle"
    /\ queue = <<>>
    /\ status = [i \in JobIx |-> "none"]
    /\ job = NoJob
    /\ job_id = <<>>
    /\ download_url = <<>>
    /\ temp_path = <<>>
    /\ imported_objects = {}
    /\ message = NoError
    /\ files = {}
    /\ objects = {}
    /\ coll = [exists |-> FALSE, objects |-> {}]
    /\ events = <<>>
    /\ acklog = <<>>
    /\ outcome = NoOutcome
    /\ first_error = NoError
    /\ wm = [jobs |-> <<>>, last_count |-> 0]
    /\ requests = <<>>
    /\ response = NoResponse
    /\ op_result = NoReport
    /\ arg = <<>>
    /\ ret = <<>>

NextOps ==
    \/ TestConnection
    \/ FetchJobs
    \/ PairCode

\* the test-connection, fetch-jobs and pair-by-code operators, run in any order
SpecOps == InitOps /\ [][NextOps]_vars

(* ------------------------- suffix resolution --------------------------- *)
\* the "format" fields a job descriptor can carry (absent is the empty string)
SuffixFormats ==
    { <<>>,
      <<"g","l","b">>,
      <<"g","l","t","f">>,
      <<"o","b","j">>,
      <<"s","t","l">>,
      <<"S","T","L">>,
      <<" ","o","b","j"," ">>,
      <<"f","b","x">>,
      <<"G","l","t","f">> }

\* the "downloadUrl" fields a job descriptor can carry
SuffixUrls ==
    { <<>>,
      <<"h","t","t","p",":","/","/","x","/","m",".","o","b","j">>,
      <<"h","t","t","p",":","/","/","x","/","m",".","O","B","J"," ">>,
      <<"h","t","t","p",":","/","/","x","/","a",".","s","t","l","?","v","=","1",".","g","l","b">>,
      <<"h","t","t","p",":","/","/","x","/","a",".","g","l","t","f","#","f",".","o","b","j">>,
      <<"h","t","t","p",":","/","/","x",".","o","b","j">>,
      <<"h","t","t","p",":","/","/","x","/","y",".","b","i","n">>,
      <<"h","t","t","p",":","/","/","x","/",".","s","t","l">>,
      <<"h","t","t","p",":","/","/","x","/","a",".","b","/","c">>,
      <<"/","d","/","m",".","g","l","b">>,
      <<"m",".",".","s","t","l">>,
      <<"h","t","t","p",":","/","/","x","/","a",".","o","b","j","/">> }

\* some job descriptor is at hand
InitSuffix ==
    /\ cfg \in {c \in Configs : c.prefs /\ c.server_url = GoodUrl}
    /\ job \in [jobId : {<<"J","1">>}, format : SuffixFormats, downloadUrl : SuffixUrls]
    /\ run = 0
    /\ pc = "idle"
    /\ queue = <<>>
    /\ status = [i \in JobIx |-> "none"]
    /\ job_id = <<>>
    /\ download_url = <<>>
    /\ temp_path = <<>>
    /\ imported_objects = {}
    /\ message = NoError
    /\ files = {}
    /\ objects = {}
    /\ coll = [exists |-> FALSE, objects |-> {}]
    /\ events = <<>>
    /\ acklog = <<>>
    /\ outcome = NoOutcome
    /\ first_error = NoError
    /\ pair_code = <<>>
    /\ wm = [jobs |-> <<>>, last_count |-> 0]
    /\ requests = <<>>
    /\ response = NoResponse
    /\ op_result = NoReport
    /\ arg = <<>>
    /\ ret = <<>>

\* suffix = _infer_suffix(job), line 111 of _download_file
InferSuffixCall ==
    /\ pc = "idle"
    /\ ret = <<>>
    /\ ret' = InferSuffix(job)
    /\ UNCHANGED << cfg, runstate, imported_objects, objects, coll,
                    pair_code, wm, requests, response, op_result, arg >>

NextSuffix == InferSuffixCall

SpecSuffix == InitSuffix /\ [][NextSuffix]_vars

(* ------------------------------ the scene ------------------------------ *)
\* the object names of a small scene
SceneNames == {"A", "B", "C"}

\* a run is at line 333 with some scene; the collection of the preferences
\* may exist already and hold some of the objects
InitScene ==
    /\ cfg \in {c \in Configs : c.prefs /\ c.server_url = GoodUrl}
    /\ objects \in SUBSET SceneNames
    /\ coll \in {c \in [exists : BOOLEAN, objects : SUBSET objects] :
                     ~c.exists => c.objects = {}}
    /\ run = 1
    /\ pc = "import"
    /\ queue = <<>>
    /\ status = [i \in JobIx |-> "none"]
    /\ job = JobTable[1]
    /\ job_id = Strip(JobTable[1].jobId)
    /\ download_url = Strip(JobTable[1].downloadUrl)
    /\ temp_path = MkstempPath(1, InferSuffix(JobTable[1]))
    /\ imported_objects = {}
    /\ message = NoError
    /\ files = {temp_path}
    /\ events = <<>>
    /\ acklog = <<>>
    /\ outcome = NoOutcome
    /\ first_error = NoError
    /\ pair_code = <<>>
    /\ wm = [jobs |-> <<>>, last_count |-> 0]
    /\ requests = <<>>
    /\ response = NoResponse
    /\ op_result = NoReport
    /\ arg = {}
    /\ ret = <<>>

\* line 333, _import_model_file with an importer that may do anything to the
\* scene: it leaves the objects named after, of which it may have put some
\* new ones into the collection already (when that is the active one); a
\* renamed object is one name gone and one name new.  arg is before_names.
ImportModelFile ==
    /\ pc = "import"
    /\ \E after \in SUBSET SceneNames :
       \E pre \in SUBSET ImportedObjects(objects, after) :
        /\ arg' = objects
        /\ objects' = after
        /\ imported_objects' = ImportedObjects(objects, after)
        /\ coll' = [coll EXCEPT !.objects =
                        (@ \cap after) \cup (IF coll.exists THEN pre ELSE {})]
    /\ pc' = "link"
    /\ UNCHANGED << cfg, run, queue, status, job, job_id, download_url, temp_path,
                    message, files, events, acklog, outcome, first_error,
                    pair_code, wm, requests, response, op_result, ret >>

\* lines 335-336, applied once and then again with the same arguments
LinkImported ==
    /\ pc \in {"link", "linked"}
    /\ coll' = MoveToCollection(coll, imported_objects, Strip(cfg.import_collection))
    /\ pc' = "linked"
    /\ UNCHANGED << cfg, run, queue, status, job, job_id, download_url, temp_path,
                    imported_objects, objects, message, files, events, acklog,
                    outcome, first_error, panel >>

NextScene == ImportModelFile \/ LinkImported

SpecScene == InitScene /\ [][NextScene]_vars

(* ------------------------- history helpers ----------------------------- *)
\* the acknowledgements sent during the current invocation
RunAcks == {acklog[i] : i \in {n \in 1..Len(acklog) : acklog[n].run = run}}
\* the events of the current invocation with the given name
RunEvents(e) == {events[i] : i \in {n \in 1..Len(events) : events[n].ev = e}}
\* the temp files the current invocation created that still exist
RunFiles == {f \in files : f[6] = Digit(run)}
\* the invocation is over
RunEnded == pc = "idle" /\ run > 0
Terminal == {"imported", "error"}

(* ------------------------------- claims -------------------------------- *)
\* C1: over all runs, an "imported" or "error" acknowledgement is sent only
\* for a job already acknowledged as "picked", and nothing is sent for a job
\* after an acknowledgement into a terminal status.
C1_AcksMoveForward ==
    \A i \in 1..Len(acklog) :
        acklog[i].status \in Terminal =>
            /\ \E k \in 1..(i - 1) :
                   acklog[k].id = acklog[i].id /\ acklog[k].status = "picked"
            /\ \A k \in (i + 1)..Len(acklog) : acklog[k].id # acklog[i].id

\* C2: a run whose first listed job has an empty jobId or downloadUrl fails
\* with the invalid-job error and sends no acknowledgement at all.
C2_InvalidJobNeverAcked ==
    (job # NoJob /\ IsInvalidJob(Strip(job.jobId), Strip(job.downloadUrl))) =>
        /\ first_error = InvalidJobMsg
        /\ RunAcks = {}
        /\ RunEnded => outcome = FailureOutcome(InvalidJobMsg)

\* C3: in a run that fails in the import step, every "error" acknowledgement
\* is addressed to the job the run selected.
C3_ImportFailureAcksSelectedJob ==
    (\E e \in RunEvents("import") : e.arg = "failed") =>
        \A a \in RunAcks : a.status = "error" => a.id = Strip(job.jobId)

\* C4: when a run has ended, no temp payload file it created exists (unless
\* the deletion itself failed), and at most one exists at any time.
C4_TempFileRemoved ==
    /\ Cardinality(RunFiles) <= 1
    /\ (RunEnded /\ ~(\E e \in RunEvents("remove") : e.arg = "failed")) => RunFiles = {}

\* C5: the message of a failed run is the message of the exception that
\* entered the except branch, whatever the re-poll and the "error"
\* acknowledgement did.
C5_OriginalErrorReported ==
    (outcome.kind = "failure" /\ first_error # NoError) => outcome.msg = first_error

\* C5 witness: a run ended in failure whose "error" acknowledgement was
\* itself rejected with a different message.
C5_Witness ==
    /\ RunEnded
    /\ outcome.kind = "failure"
    /\ first_error = NetworkError
    /\ \E a \in RunAcks : a.status = "error" /\ a.res = "rejected"

\* the acknowledgement of the given status failed in this invocation
AckFailed(st) == \E a \in RunAcks : a.status = st /\ a.res # "ok"

\* C6: a failed "picked" acknowledgement ends the run in failure without
\* download or import; a failed "imported" acknowledgement ends the run in
\* failure, never in success.
C6_AckFailurePropagates ==
    /\ AckFailed("picked") =>
          /\ RunEvents("download") = {} /\ RunEvents("tempfile") = {}
          /\ RunEvents("import") = {} /\ RunFiles = {}
          /\ outcome.kind \in {"none", "failure"}
          /\ RunEnded => outcome.kind = "failure"
    /\ AckFailed("imported") =>
          /\ outcome.kind \in {"none", "failure"}
          /\ RunEnded => outcome.kind = "failure"

\* C6 witness: a run ended after its "imported" acknowledgement failed.
C6_Witness == RunEnded /\ AckFailed("imported") /\ outcome.ret = "CANCELLED"

\* C7: every acknowledgement of a run is addressed to the job the run
\* selected, the first entry of its initial listing.
C7_OneJobPerRun ==
    job # NoJob =>
        /\ \A a \in RunAcks : a.id = Strip(job.jobId)
        /\ \A e \in RunEvents("download") : e.id = Strip(job.downloadUrl)

\* the happy path of a run over job j with temp file path p, up to the report
HappyPath(j, p) ==
    << Ev("list", <<>>, "ok"),
       Ev("ack", Strip(j.jobId), "picked"),
       Ev("download", Strip(j.downloadUrl), "ok"),
       Ev("tempfile", p, "created"),
       Ev("import", p, "ok"),
       Ev("link", Strip(cfg.import_collection), "ok"),
       Ev("ack", Strip(j.jobId), "imported"),
       Ev("report", Strip(j.jobId), "INFO") >>

\* the objects the importer created in this invocation
Created == {o \in objects : o[1] = run}

\* C8: a run that reports success did, in this order: "picked"
\* acknowledgement, download to a temp file with the resolved suffix, import,
\* linking, "imported" acknowledgement, report; both acknowledgements
\* succeeded and the count is the number of objects the import created.
C8_HappyPathOrder ==
    outcome.kind = "success" =>
        /\ SubSeq(events, 1, 8) = HappyPath(job, MkstempPath(run, InferSuffix(job)))
        /\ \A a \in RunAcks : a.res = "ok" /\ a.id = Strip(job.jobId)
        /\ outcome.count = Cardinality(Created)
        /\ (Strip(cfg.import_collection) # <<>> /\ Created # {}) =>
               (coll.exists /\ Created \subseteq coll.objects)

\* C8 witness: a second successful run, which imported two objects from a
\* file with the suffix taken from the URL.
C8_Witness ==
    /\ RunEnded
    /\ run = 2
    /\ outcome.kind = "success"
    /\ outcome.count = 2
    /\ job = JobTable[2]
    /\ Cardinality(objects) > 2

\* the initial listing of this invocation succeeded and held no job
ZeroJobs == events # <<>> /\ events[1] = Ev("list", <<>>, "ok") /\ job = NoJob

\* C9: a run whose initial listing holds no job reports "no jobs", not a
\* failure, sends no acknowledgement, downloads nothing and creates no file.
C9_NoJobs ==
    ZeroJobs =>
        /\ outcome = NoJobsOutcome
        /\ outcome.kind # "failure"
        /\ RunAcks = {}
        /\ RunEvents("download") = {} /\ RunEvents("tempfile") = {}
        /\ RunEvents("repoll") = {}
        /\ RunFiles = {}

\* C9 witness: a run over an empty listing has ended, after an earlier run
\* that did acknowledge a job.
C9_Witness == RunEnded /\ ZeroJobs /\ run = 2 /\ acklog # <<>>

\* C10: a run whose initial listing request fails sends no acknowledgement.
C10_NoAckAfterFailedListing ==
    (events # <<>> /\ events[1] = Ev("list", <<>>, "failed")) => RunAcks = {}

\* the configuration the claim calls invalid: the server URL is empty or has
\* no http:// or https:// prefix, or the bearer token is empty
BadConfig ==
    \/ Strip(cfg.server_url) = <<>>
    \/ ~(StartsWith(Strip(cfg.server_url), HttpScheme)
         \/ StartsWith(Strip(cfg.server_url), HttpsScheme))
    \/ Strip(cfg.api_token) = <<>>

\* the events of an invocation that are requests on the network
RequestEvents == {"list", "repoll", "ack", "download"}

\* C11: a run started with an invalid configuration sends no request (no
\* listing, no acknowledgement, no download) and reports a failure.
C11_ConfigErrorBeforeNetwork ==
    (cfg.prefs /\ BadConfig) =>
        /\ \A i \in 1..Len(events) : events[i].ev \notin RequestEvents
        /\ acklog = <<>>
        /\ files = {}
        /\ status \in [JobIx -> {"none", "queued"}]
        /\ outcome.kind \in {"none", "failure"}
        /\ RunEnded => (outcome.kind = "failure" /\ outcome.msg = first_error
                        /\ first_error # NoError)

\* C11 witness: a run with an empty token has ended while a job was queued.
C11_Witness ==
    /\ RunEnded
    /\ cfg.prefs /\ Strip(cfg.api_token) = <<>>
    /\ queue # <<>>
    /\ outcome.kind = "failure"

\* C12: for a JSON-object response whose "jobs" field is absent or not a
\* list, an operator that lists jobs takes the job list as empty and does not
\* end in an error.
C12_MalformedJobsIsEmpty ==
    (op_result.op \in {"test", "fetch"} /\ response.got /\ ~IsList(response.jobs)) =>
        /\ op_result.level # "ERROR"
        /\ op_result.ret = "FINISHED"
        /\ op_result.count = 0

\* the server URL has one of the two accepted prefixes
UrlAccepted ==
    LET u == RStripSlash(Strip(cfg.server_url)) IN
    StartsWith(u, HttpScheme) \/ StartsWith(u, HttpsScheme)

PairFailed(text) == op_result.level = "ERROR" /\ op_result.ret = "CANCELLED"
                    /\ op_result.msg.text = text

\* C14: an empty code fails before any request; a non-empty code
\* (the server URL being accepted) sends exactly one unauthenticated request
\* with the trimmed upper-cased code and returns exactly the token of the
\* response when it is non-empty, failing when the token is absent or empty.
C14_Pairing ==
    (op_result.op = "pair" /\ cfg.prefs) =>
        /\ Strip(arg) = <<>> =>
              (PairFailed("Set Pair code in addon settings.") /\ requests = <<>>)
        /\ (Strip(arg) # <<>> /\ UrlAccepted) =>
              /\ requests = << PairRequest(Upper(Strip(arg))) >>
              /\ (response.got /\ response.token.t = "string" /\ response.token.s # <<>>) =>
                     (op_result.ret = "FINISHED" /\ ret = response.token.s)
              /\ (response.got /\ (response.token.t \in {"absent", "null"}
                                   \/ (response.token.t = "string"
                                       /\ response.token.s = <<>>))) =>
                     PairFailed("Pairing response does not contain token.")

\* the extension of the path of a URL, as urlparse and splitext give it
PathExt(url) == SplitExt(UrlPath(url))

\* C13 as stated: a format that is one of glb, gltf, obj, stl gives that
\* suffix whatever the URL; otherwise an extension of the URL path that is one
\* of .glb, .gltf, .obj, .stl gives that extension; otherwise the suffix is
\* .glb; and the suffix is always one of the four.
C13_SuffixAsStated ==
    ret # <<>> =>
        /\ job.format \in KnownFormats => ret = <<".">> \o job.format
        /\ (job.format \notin KnownFormats /\ PathExt(job.downloadUrl) \in KnownSuffixes) =>
               ret = PathExt(job.downloadUrl)
        /\ (job.format \notin KnownFormats /\ PathExt(job.downloadUrl) \notin KnownSuffixes) =>
               ret = <<".","g","l","b">>
        /\ ret \in KnownSuffixes

\* C13 as amended: the same priority, with the format compared after trimming
\* and lower-casing it, and the extension taken from the trimmed URL and
\* lower-cased.
C13_Suffix ==
    LET hint == Lower(Strip(job.format))
        ext == Lower(PathExt(Strip(job.downloadUrl)))
    IN  ret # <<>> =>
            /\ hint \in KnownFormats => ret = <<".">> \o hint
            /\ (hint \notin KnownFormats /\ ext \in KnownSuffixes) => ret = ext
            /\ (hint \notin KnownFormats /\ ext \notin KnownSuffixes) =>
                   ret = <<".","g","l","b">>
            /\ ret \in KnownSuffixes

\* C13 witness: the format stl has won over a URL that ends in .obj
C13_Witness ==
    /\ job.format = <<"s","t","l">>
    /\ job.downloadUrl = <<"h","t","t","p",":","/","/","x","/","m",".","o","b","j">>
    /\ ret = <<".","s","t","l">>

\* the import of line 333 has returned
AfterImport == pc \in {"link", "linked"}

\* C15 as stated: the reported count is the number of objects after the
\* import minus the number before it, whatever the importer did to the scene.
C15_CountAsStated ==
    AfterImport =>
        ReportedCount(imported_objects, objects) = Cardinality(objects) - Cardinality(arg)

\* C15 as amended: the reported count is the number of objects after the
\* import whose name no object had before it; it is the number after minus
\* the number before when every earlier object is still there under its
\* name; linking does not change it.
C15_Count ==
    AfterImport =>
        /\ ReportedCount(imported_objects, objects)
              = Cardinality({o \in objects : o \notin arg})
        /\ arg \subseteq objects =>
              ReportedCount(imported_objects, objects)
                = Cardinality(objects) - Cardinality(arg)
        /\ ReportedCount(imported_objects, objects) <= Cardinality(objects)

\* C15 witness: two objects were imported into a scene of one and linked.
C15_Witness ==
    /\ pc = "linked"
    /\ arg = {"A"}
    /\ objects = {"A", "B", "C"}
    /\ coll.objects = {"B", "C"}
    /\ ReportedCount(imported_objects, objects) = 2

\* the collection name handed to _move_to_collection (line 335)
LinkName == Strip(cfg.import_collection)

\* C19: a linking step with a non-empty name and a non-empty object list
\* leaves the collection existing, holding what it held and every listed
\* object, having linked only objects it did not hold; applied again it
\* links nothing and changes nothing; with an empty name or an empty list
\* it changes nothing and creates no collection.
C19_LinkIdempotent ==
    [][ (pc \in {"link", "linked"} /\ pc' = "linked") =>
          /\ (LinkName # <<>> /\ imported_objects # {}) =>
                /\ coll'.exists
                /\ coll'.objects = coll.objects \cup imported_objects
                /\ ToLink(coll, imported_objects) \cap coll.objects = {}
                /\ ToLink(coll', imported_objects) = {}
                /\ MoveToCollection(coll', imported_objects, LinkName) = coll'
                /\ pc = "linked" => coll' = coll
          /\ (LinkName = <<>> \/ imported_objects = {}) => coll' = coll
          /\ objects' = objects
      ]_vars

\* C19 witness: the collection was created by the linking of two imported
\* objects and holds exactly them.
C19_Witness ==
    /\ pc = "linked"
    /\ arg = {"A"}
    /\ imported_objects = {"B", "C"}
    /\ LinkName = CollName
    /\ coll = [exists |-> TRUE, objects |-> {"B", "C"}]

\* the reports of this invocation
Reports == {i \in 1..Len(events) : events[i].ev = "report"}

\* C16: every started invocation returns, and when it has returned it has
\* made exactly one report: success with a count, no jobs, or failure with
\* the message of the error.
C16_TerminatesWithOneOutcome ==
    /\ [](pc # "idle" => <>(pc = "idle"))
    /\ [](RunEnded =>
            /\ Cardinality(Reports) = 1
            /\ outcome.kind \in {"success", "nojobs", "failure"}
            /\ outcome.kind = "success" =>
                   (outcome.ret = "FINISHED" /\ outcome.count = Cardinality(imported_objects))
            /\ outcome.kind = "nojobs" => outcome = NoJobsOutcome
            /\ outcome.kind = "failure" =>
                   (outcome.ret = "CANCELLED" /\ outcome.msg # NoError)
            /\ first_error # NoError => outcome.kind = "failure")

\* C16 witness: a run has returned with a failure after both its "error"
\* acknowledgement and the deletion of its temp file failed.
C16_Witness ==
    /\ RunEnded
    /\ outcome.kind = "failure"
    /\ \E a \in RunAcks : a.status = "error" /\ a.res = "lost"
    /\ \E e \in RunEvents("remove") : e.arg = "failed"

\* C17: from the report of the outcome of a run on, no temp file of the run
\* exists, unless its deletion was tried and failed.
C17_CleanupBeforeReport ==
    (run > 0 /\ outcome.kind # "none"
     /\ ~(\E e \in RunEvents("remove") : e.arg = "failed")) => RunFiles = {}

\* the server took the acknowledgement
Accepted(a) == a.res \in {"ok", "lost"}

Went(e, how) == \E x \in RunEvents(e) : x.arg = how

\* C20: a run that reports success has had its "picked" acknowledgement, its
\* download, its import and its "imported" acknowledgement for the selected
\* job succeed and has sent no "error" acknowledgement and no re-poll; a run
\* that sends an "error" acknowledgement reports failure.
C20_SuccessIsEarned ==
    /\ outcome.kind = "success" =>
          /\ \E a \in RunAcks :
                a.status = "picked" /\ a.res = "ok" /\ a.id = Strip(job.jobId)
          /\ \E a \in RunAcks :
                a.status = "imported" /\ a.res = "ok" /\ a.id = Strip(job.jobId)
          /\ Went("download", "ok") /\ ~Went("download", "failed")
          /\ Went("import", "ok") /\ ~Went("import", "failed")
          /\ \A a \in RunAcks : a.status # "error"
          /\ RunEvents("repoll") = {}
    /\ (\E a \in RunAcks : a.status = "error") =>
          /\ outcome.kind \in {"none", "failure"}
          /\ RunEnded => (outcome.kind = "failure" /\ outcome.ret = "CANCELLED")

\* C20 witness: a run that picked its job and downloaded the file has ended
\* in failure with an accepted "error" acknowledgement.
C20_Witness ==
    /\ RunEnded
    /\ Went("download", "ok")
    /\ \E a \in RunAcks : a.status = "error" /\ a.res = "ok"
    /\ outcome.kind = "failure"

====
